---- MODULE Spec2Model ----
(***************************************************************************)
(* Model of app.py, the talking-avatar video generator: one run of the     *)
(* Streamlit script (credential check, widgets, Generate button handler)   *)
(* and the helpers it calls (get_secret, generate_audio, get_mime_type,    *)
(* upload_to_did, create_video).  Network calls are recorded in `calls`    *)
(* in the order the script issues them; the providers' answers are         *)
(* nondeterministic inputs.                                                *)
(***************************************************************************)
EXTENDS Integers, Sequences, FiniteSets, TLC

(* ---------------------------------------------------------------------- *)
(* Program constants                                                       *)
(* ---------------------------------------------------------------------- *)

\* range(60): the number of iterations of the polling loop
MaxPolls == 60

\* time.sleep(3): the wait before each status fetch
PollInterval == 3

\* len(script) > 1000: the longest script the handler accepts
ScriptLimit == 1000

CLAIRE_VOICE_ID == "09eccfe9-8068-42c3-8f0a-e91f5d50d160"

\* Python's None (also: a key that is missing from a mapping)
None == "None"

(* ---------------------------------------------------------------------- *)
(* Bounds of the model                                                     *)
(* ---------------------------------------------------------------------- *)

\* script lengths explored: 0..Slack and ScriptLimit..ScriptLimit+Slack
Slack == 1

\* file names given to get_mime_type are built from at most MaxParts tokens
MaxParts == 3

(* ---------------------------------------------------------------------- *)
(* Characters and file names (a file name is a sequence of characters)     *)
(* ---------------------------------------------------------------------- *)

Upper == <<"A","B","C","D","E","F","G","H","I","J","K","L","M",
           "N","O","P","Q","R","S","T","U","V","W","X","Y","Z">>
Lower == <<"a","b","c","d","e","f","g","h","i","j","k","l","m",
           "n","o","p","q","r","s","t","u","v","w","x","y","z">>

\* str.lower() on one character
LowerChar(c) ==
    IF \E i \in 1..26 : Upper[i] = c
    THEN Lower[CHOOSE i \in 1..26 : Upper[i] = c]
    ELSE c

\* str.lower()
lower(s) == [i \in 1..Len(s) |-> LowerChar(s[i])]

\* str.split('.'): the segments between the dots, always at least one
RECURSIVE SplitFrom(_, _, _)
SplitFrom(s, i, cur) ==
    IF i > Len(s) THEN <<cur>>
    ELSE IF s[i] = "." THEN <<cur>> \o SplitFrom(s, i + 1, <<>>)
    ELSE SplitFrom(s, i + 1, Append(cur, s[i]))

split(s) == SplitFrom(s, 1, <<>>)

\* the static table mime_types, with dict.get's default
mime_types(ext) ==
    CASE ext = <<"p","n","g">>     -> "image/png"
      [] ext = <<"j","p","g">>     -> "image/jpeg"
      [] ext = <<"j","p","e","g">> -> "image/jpeg"
      [] ext = <<"m","p","3">>     -> "audio/mpeg"
      [] ext = <<"w","a","v">>     -> "audio/wav"
      [] OTHER                     -> "application/octet-stream"

\* get_mime_type(filename): ext = filename.lower().split('.')[-1]
get_mime_type(filename) ==
    LET parts == split(lower(filename))
        ext   == parts[Len(parts)]
    IN  mime_types(ext)

(* ---------------------------------------------------------------------- *)
(* Values exchanged with the environment                                   *)
(* ---------------------------------------------------------------------- *)

\* what a credential source can hold for a key: nothing, an empty value, a key
StoreVals == {None, "", "key"}

\* get_secret(key): st.secrets[key] when the lookup does not raise, otherwise
\* os.environ.get(key)
get_secret(secret, env) == IF secret # None THEN secret ELSE env

\* Python truthiness of a resolved credential
Truthy(v) == v # None /\ v # ""

DEFAULT_OPTION == "Use default (Claire)"
UPLOAD_OPTION  == "Upload your own image"
AvatarOptions  == {DEFAULT_OPTION, UPLOAD_OPTION}

\* the bundled asset assets/chef-avatar.png
AVATAR_BYTES == "bytes:chef-avatar.png"
AVATAR_NAME  == <<"a","v","a","t","a","r",".","p","n","g">>
SPEECH_NAME  == <<"s","p","e","e","c","h",".","m","p","3">>

\* an uploaded file (name, getvalue()); NoFile is the uploader's None
NoFile == [name |-> <<>>, value |-> None]
UserFiles ==
    { [name |-> <<"m","e",".","J","P","G">>, value |-> "bytes:user-1"] }

\* script lengths explored (the script is represented by its length)
ScriptLens == (0..Slack) \cup (ScriptLimit..(ScriptLimit + Slack))

AudioBodies  == {"mp3:A", "mp3:B"}
UploadUrls   == {"s3://bucket/1", "s3://bucket/2"}
TalkIds      == {"tlk_1", "tlk_2"}
ResultUrls   == {"https://result/1", "https://result/2"}
ErrorPayloads == {"err:face-not-detected", "err:internal"}
VideoBodies  == {"mp4:video"}
ErrorBodies  == {"body:access-denied"}

\* an HTTP exchange: the transport fails, or a response arrives whose status
\* is an error status (with the provider's error body) or a success status
Responses(okBodies, errBodies) ==
    [kind : {"conn_error"}, body : {None}]
      \cup [kind : {"http_error"}, body : errBodies]
      \cup [kind : {"ok"}, body : okBodies]

TtsResponses      == Responses(AudioBodies, {"body:tts-error"})
UploadResponses   == Responses([url : UploadUrls \cup {None}], {[url |-> None]})
CreateResponses   == Responses([id : TalkIds \cup {None}], {[id |-> None]})
DownloadResponses == Responses(VideoBodies, ErrorBodies)

NoResult == [status |-> None, result_url |-> None, error |-> None]
PollBodies ==
    [status : {None, "created", "pending", "started"},
     result_url : {None}, error : {None}]
      \cup [status : {"done"}, result_url : ResultUrls \cup {None}, error : {None}]
      \cup [status : {"error"}, result_url : {None}, error : ErrorPayloads \cup {None}]
PollResponses ==
    [kind : {"conn_error", "http_error"}, body : {NoResult}]
      \cup [kind : {"ok"}, body : PollBodies]

(* ---------------------------------------------------------------------- *)
(* Exceptions and results of the helper functions                          *)
(* ---------------------------------------------------------------------- *)

\* no response yet
NoResp == [kind |-> None, body |-> None]

NoExc == [type |-> None, msg |-> <<>>]
Exc(type, msg) == [type |-> type, msg |-> msg]

TIMEOUT_MSG == <<"Timeout waiting for video generation">>
TimeoutExc  == Exc("Exception", TIMEOUT_MSG)
DidErrorExc(payload) == Exc("Exception", <<"D-ID error: ", payload>>)

\* a call either returns a value or raises
Return(v) == [exc |-> NoExc, ret |-> v]
Raise(e)  == [exc |-> e, ret |-> None]

\* requests.post / requests.get followed by response.raise_for_status()
Checked(resp, where) ==
    IF resp.kind = "conn_error" THEN Exc("ConnectionError", <<where>>)
    ELSE IF resp.kind = "http_error" THEN Exc("HTTPError", <<where>>)
    ELSE NoExc

\* variant: the response status is not checked
generate_audio_unchecked(resp) ==
    IF resp.kind = "conn_error" THEN Raise(Exc("ConnectionError", <<"tts">>))
    ELSE Return(resp.body)

\* generate_audio(text): returns response.content
generate_audio(resp) ==
    IF Checked(resp, "tts") # NoExc THEN Raise(Checked(resp, "tts"))
    ELSE Return(resp.body)

\* upload_to_did(...): returns response.json()["url"]
upload_to_did(resp, endpoint) ==
    IF Checked(resp, endpoint) # NoExc THEN Raise(Checked(resp, endpoint))
    ELSE IF resp.body.url = None THEN Raise(Exc("KeyError", <<"url">>))
    ELSE Return(resp.body.url)

\* create_video, first half: talk_id = response.json()["id"]
create_talk(resp) ==
    IF Checked(resp, "talks") # NoExc THEN Raise(Checked(resp, "talks"))
    ELSE IF resp.body.id = None THEN Raise(Exc("KeyError", <<"id">>))
    ELSE Return(resp.body.id)

\* variant: an error status of the status fetch is treated like a pending job
poll_outcome_http_error_as_pending(resp) ==
    IF resp.kind = "conn_error" THEN Raise(Exc("ConnectionError", <<"talks/id">>))
    ELSE IF resp.kind = "http_error" THEN Return("continue")
    ELSE IF resp.body.status = None THEN Raise(Exc("KeyError", <<"status">>))
    ELSE IF resp.body.status = "done"
         THEN IF resp.body.result_url = None
              THEN Raise(Exc("KeyError", <<"result_url">>))
              ELSE Return(resp.body.result_url)
    ELSE IF resp.body.status = "error"
         THEN Raise(DidErrorExc(IF resp.body.error = None
                                THEN "Unknown error" ELSE resp.body.error))
    ELSE Return("continue")

\* variant: only the documented pending statuses keep the loop going
poll_outcome_unknown_status_fails(resp) ==
    IF Checked(resp, "talks/id") # NoExc THEN Raise(Checked(resp, "talks/id"))
    ELSE IF resp.body.status = None THEN Raise(Exc("KeyError", <<"status">>))
    ELSE IF resp.body.status = "done"
         THEN IF resp.body.result_url = None
              THEN Raise(Exc("KeyError", <<"result_url">>))
              ELSE Return(resp.body.result_url)
    ELSE IF resp.body.status = "error"
         THEN Raise(DidErrorExc(IF resp.body.error = None
                                THEN "Unknown error" ELSE resp.body.error))
    ELSE IF resp.body.status \in {"created", "pending"} THEN Return("continue")
    ELSE Raise(Exc("Exception", <<"unexpected status">>))

\* variant: a finished job is treated like a pending one
poll_outcome_done_as_pending(resp) ==
    IF Checked(resp, "talks/id") # NoExc THEN Raise(Checked(resp, "talks/id"))
    ELSE IF resp.body.status = None THEN Raise(Exc("KeyError", <<"status">>))
    ELSE IF resp.body.status = "error"
         THEN Raise(DidErrorExc(IF resp.body.error = None
                                THEN "Unknown error" ELSE resp.body.error))
    ELSE Return("continue")

\* variant: a reported error is treated like a pending job
poll_outcome_error_as_pending(resp) ==
    IF Checked(resp, "talks/id") # NoExc THEN Raise(Checked(resp, "talks/id"))
    ELSE IF resp.body.status = None THEN Raise(Exc("KeyError", <<"status">>))
    ELSE IF resp.body.status = "done"
         THEN IF resp.body.result_url = None
              THEN Raise(Exc("KeyError", <<"result_url">>))
              ELSE Return(resp.body.result_url)
    ELSE Return("continue")

\* create_video, the body of one loop iteration after the fetch:
\* "continue" stands for falling through to the next iteration
CONTINUE == "continue"
poll_outcome(resp) ==
    IF Checked(resp, "talks/id") # NoExc THEN Raise(Checked(resp, "talks/id"))
    ELSE IF resp.body.status = None THEN Raise(Exc("KeyError", <<"status">>))
    ELSE IF resp.body.status = "done"
         THEN IF resp.body.result_url = None
              THEN Raise(Exc("KeyError", <<"result_url">>))
              ELSE Return(resp.body.result_url)
    ELSE IF resp.body.status = "error"
         THEN Raise(DidErrorExc(IF resp.body.error = None
                                THEN "Unknown error" ELSE resp.body.error))
    ELSE Return(CONTINUE)

\* variant: the loop has no bound
loop_never_ends(n) == TRUE

\* variant: the loop admits one iteration more
loop_continues_one_more(n) == n <= MaxPolls

\* the loop of create_video runs while iterations remain
loop_continues(n) == n < MaxPolls

\* requests.get(video_url) in the handler: no raise_for_status, the body of
\* whatever response arrives is taken as the video
download(resp) ==
    IF resp.kind = "conn_error" THEN Raise(Exc("ConnectionError", <<"download">>))
    ELSE Return(resp.body)

(* ---------------------------------------------------------------------- *)
(* State of one run of the script                                          *)
(* ---------------------------------------------------------------------- *)

VARIABLES
    pc,             \* position of the script run
    HUME_API_KEY,   \* resolved credentials
    DID_API_KEY,
    script,         \* st.text_area value, represented by its length
    avatar_option,  \* st.radio value
    session_file,   \* the file the user holds in the uploader, if any
    uploaded_image, \* the variable uploaded_image of this run
    can_generate,
    clicked,        \* st.button returned True in this run
    audio_bytes, image_url, audio_url, talk_id, video_url, video_bytes,
    attempt,        \* iterations of the polling loop started so far
    status_response, \* the response to the last status fetch
    result,         \* the last status document decoded by the loop
    waited,         \* total time slept by the polling loop
    calls,          \* the calls issued, in order (network calls and sleeps)
    status_state,   \* state of the st.status box
    errors,         \* st.error messages shown in this run
    shown,          \* data handed to st.video / st.download_button
    exc,            \* the exception raised in the handler, if any
    filename, mime  \* input and output of get_mime_type (SpecMime)

ctl    == <<pc, status_state, errors, exc>>
keys   == <<HUME_API_KEY, DID_API_KEY>>
inputs == <<script, avatar_option, session_file, uploaded_image, can_generate>>
locals == <<audio_bytes, image_url, audio_url, talk_id, video_url, video_bytes>>
loopv  == <<attempt, status_response, result, waited>>
mimev  == <<filename, mime>>
vars   == <<ctl, keys, inputs, clicked, locals, loopv, calls, shown, mimev>>

MISSING_KEYS_MSG == <<"Missing API keys. Set HUME_API_KEY and DID_API_KEY environment variables.">>
TOO_LONG_MSG     == <<"Script too long! Keep it under 1000 characters.">>
WENT_WRONG       == <<"Something went wrong: ">>

\* a recorded call: what was called, with what, and what came back
Call(op, target, payload, res) ==
    [op |-> op, target |-> target, payload |-> payload, res |-> res]

IsNet(c) == c.op # "sleep"
\* the network calls among the recorded calls, in order
NetCalls == SelectSeq(calls, IsNet)
Ops(seq) == [i \in 1..Len(seq) |-> seq[i].op]

Fresh ==
    /\ pc = "start"
    /\ HUME_API_KEY = None /\ DID_API_KEY = None
    /\ script = 0 /\ avatar_option = DEFAULT_OPTION
    /\ session_file = NoFile /\ uploaded_image = NoFile
    /\ can_generate = FALSE /\ clicked = FALSE
    /\ audio_bytes = None /\ image_url = None /\ audio_url = None
    /\ talk_id = None /\ video_url = None /\ video_bytes = None
    /\ attempt = 0 /\ status_response = NoResp
    /\ result = NoResult /\ waited = 0
    /\ calls = <<>>
    /\ status_state = None /\ errors = <<>> /\ shown = None /\ exc = NoExc

Init == Fresh /\ filename = <<>> /\ mime = None

(* ---------------------------------------------------------------------- *)
(* Module level: credentials, widgets, button                              *)
(* ---------------------------------------------------------------------- *)

\* variant: the run stops only when both credentials are missing
keys_missing_both(hume, did) == ~Truthy(hume) /\ ~Truthy(did)

\* the check `not HUME_API_KEY or not DID_API_KEY`
keys_missing(hume, did) == ~Truthy(hume) \/ ~Truthy(did)

\* lines 15-23 and 65-67: resolve both credentials, stop if one is missing
Startup ==
    /\ pc = "start"
    /\ \E sh \in StoreVals, eh \in StoreVals, sd \in StoreVals, ed \in StoreVals :
         LET hume == get_secret(sh, eh)
             did  == get_secret(sd, ed)
         IN  /\ HUME_API_KEY' = hume
             /\ DID_API_KEY' = did
             /\ IF keys_missing(hume, did)
                THEN /\ errors' = Append(errors, MISSING_KEYS_MSG)
                     /\ pc' = "stopped"
                ELSE /\ errors' = errors
                     /\ pc' = "widgets"
    /\ UNCHANGED <<status_state, exc, inputs, clicked, locals, loopv, calls,
                   shown, mimev>>

\* variant: the uploader's file is used whatever option is selected
uploaded_image_any_option(option, file) == file

\* lines 160-168: uploaded_image is None unless the upload option is selected
\* and the uploader holds a file
uploaded_image_of(option, file) ==
    IF option = UPLOAD_OPTION THEN file ELSE NoFile

\* line 181
can_generate_of(scr, option, img) ==
    scr # 0 /\ (option = DEFAULT_OPTION \/ img # NoFile)

\* lines 154-181: the widgets are evaluated on the user's current input
Widgets ==
    /\ pc = "widgets"
    /\ \E s \in ScriptLens, o \in AvatarOptions, f \in UserFiles \cup {NoFile} :
         /\ script' = s
         /\ avatar_option' = o
         /\ session_file' = f
         /\ uploaded_image' = uploaded_image_of(o, f)
         /\ can_generate' = can_generate_of(s, o, uploaded_image_of(o, f))
    /\ pc' = "button"
    /\ UNCHANGED <<status_state, errors, exc, keys, clicked, locals, loopv,
                   calls, shown, mimev>>

\* variant: the limit itself is rejected
too_long_inclusive(scr) == scr >= ScriptLimit

\* line 185
too_long(scr) == scr > ScriptLimit

\* lines 184-188: the button is pressed (it cannot be when disabled)
ClickGenerate ==
    /\ pc = "button"
    /\ can_generate
    /\ clicked' = TRUE
    /\ IF too_long(script)
       THEN /\ errors' = Append(errors, TOO_LONG_MSG)
            /\ pc' = "end"
            /\ UNCHANGED status_state
       ELSE /\ status_state' = "running"
            /\ pc' = "synth"
            /\ UNCHANGED errors
    /\ UNCHANGED <<exc, keys, inputs, locals, loopv, calls, shown, mimev>>

\* line 184: the run ends with the button not pressed
NoClick ==
    /\ pc = "button"
    /\ pc' = "end"
    /\ UNCHANGED <<status_state, errors, exc, keys, inputs, clicked, locals,
                   loopv, calls, shown, mimev>>

(* ---------------------------------------------------------------------- *)
(* The handler's try block                                                 *)
(* ---------------------------------------------------------------------- *)

\* variant: the exception is swallowed without a message
ExceptSilent(e) ==
    /\ exc' = e
    /\ status_state' = "error"
    /\ errors' = errors
    /\ pc' = "end"

\* variant: the failed step is attempted again
ExceptRetry(e) ==
    /\ exc' = e
    /\ status_state' = "error"
    /\ errors' = Append(errors, WENT_WRONG \o e.msg)
    /\ pc' = pc

\* lines 232-234: the except clause
Except(e) ==
    /\ exc' = e
    /\ status_state' = "error"
    /\ errors' = Append(errors, WENT_WRONG \o e.msg)
    /\ pc' = "end"

\* variant: the audio is uploaded before the avatar
next_step_audio_first(step) ==
    CASE step = "synth" -> "audio"
      [] step = "audio" -> "image"
      [] step = "image" -> "talk"
      [] step = "talk"  -> "poll"
      [] step = "poll"  -> "download"
      [] step = "download" -> "end"

\* lines 190-219: the order of the statements of the try block
next_step(step) ==
    CASE step = "synth" -> "image"
      [] step = "image" -> "audio"
      [] step = "audio" -> "talk"
      [] step = "talk"  -> "poll"
      [] step = "poll"  -> "download"
      [] step = "download" -> "end"

\* normal continuation of the try block
Goto(next) ==
    /\ pc' = next
    /\ UNCHANGED <<status_state, errors, exc>>

\* lines 191-193: audio_bytes = generate_audio(script)
GenerateAudio ==
    /\ pc = "synth"
    /\ \E resp \in TtsResponses :
         LET r == generate_audio(resp) IN
         /\ calls' = Append(calls, Call("tts", <<"hume:/v0/tts/file">>,
                        [text |-> script, voice |-> CLAIRE_VOICE_ID], resp))
         /\ IF r.exc # NoExc
            THEN Except(r.exc) /\ UNCHANGED audio_bytes
            ELSE Goto(next_step("synth")) /\ audio_bytes' = r.ret
    /\ UNCHANGED <<keys, inputs, clicked, image_url, audio_url, talk_id,
                   video_url, video_bytes, loopv, shown, mimev>>

\* lines 197-203: which bytes and which name the image upload sends;
\* asset is what open(AVATAR_PATH).read() returned
avatar_source(img, asset) ==
    IF img # NoFile THEN [value |-> img.value, name |-> img.name]
    ELSE [value |-> asset, name |-> AVATAR_NAME]

\* lines 196-204: resolve the avatar bytes and upload them
UploadAvatar ==
    /\ pc = "image"
    /\ \E readable \in BOOLEAN, resp \in UploadResponses :
         LET src == avatar_source(uploaded_image, AVATAR_BYTES)
             r   == upload_to_did(resp, "images")
         IN
         IF uploaded_image = NoFile /\ ~readable
         THEN /\ Except(Exc("FileNotFoundError", <<"assets/chef-avatar.png">>))
              /\ UNCHANGED <<calls, image_url>>
         ELSE /\ calls' = Append(calls, Call("upload_image", <<"d-id:/images">>,
                         [field |-> "image", filename |-> src.name,
                          bytes |-> src.value,
                          mime |-> get_mime_type(src.name)], resp))
              /\ IF r.exc # NoExc
                 THEN Except(r.exc) /\ UNCHANGED image_url
                 ELSE Goto(next_step("image")) /\ image_url' = r.ret
    /\ UNCHANGED <<keys, inputs, clicked, audio_bytes, audio_url, talk_id,
                   video_url, video_bytes, loopv, shown, mimev>>

\* lines 207-209: audio_url = upload_to_did(audio_bytes, "audios", ...)
UploadAudio ==
    /\ pc = "audio"
    /\ \E resp \in UploadResponses :
         LET r == upload_to_did(resp, "audios") IN
         /\ calls' = Append(calls, Call("upload_audio", <<"d-id:/audios">>,
                        [field |-> "audio", filename |-> SPEECH_NAME,
                         bytes |-> audio_bytes,
                         mime |-> get_mime_type(SPEECH_NAME)], resp))
         /\ IF r.exc # NoExc
            THEN Except(r.exc) /\ UNCHANGED audio_url
            ELSE Goto(next_step("audio")) /\ audio_url' = r.ret
    /\ UNCHANGED <<keys, inputs, clicked, audio_bytes, image_url, talk_id,
                   video_url, video_bytes, loopv, shown, mimev>>

(* ---------------------------------------------------------------------- *)
(* create_video and the rest of the handler                                *)
(* ---------------------------------------------------------------------- *)

\* variant: the two URLs are exchanged
talk_request_swapped(img_url, aud_url) ==
    [source_url |-> aud_url, audio_url |-> img_url]

\* lines 120-126: the JSON body of POST /talks
talk_request(img_url, aud_url) ==
    [source_url |-> img_url, audio_url |-> aud_url]

\* lines 212-213 and 114-129: create_video is entered and submits the job
CreateTalk ==
    /\ pc = "talk"
    /\ \E resp \in CreateResponses :
         LET r == create_talk(resp) IN
         /\ calls' = Append(calls, Call("create_talk", <<"d-id:/talks">>,
                        talk_request(image_url, audio_url), resp))
         /\ IF r.exc # NoExc
            THEN Except(r.exc) /\ UNCHANGED talk_id
            ELSE Goto(next_step("talk")) /\ talk_id' = r.ret
    /\ UNCHANGED <<keys, inputs, clicked, audio_bytes, image_url, audio_url,
                   video_url, video_bytes, loopv, shown, mimev>>

\* variant: the status is fetched first and the wait follows
iteration_calls_fetch_first(id) ==
    << Call("poll", <<"d-id:/talks/", id>>, [id |-> id], NoResp),
       Call("sleep", <<"time.sleep">>, [seconds |-> PollInterval], NoResp) >>

\* lines 133-137: the calls of one iteration: time.sleep(3), then the fetch
\* of talks/{talk_id}
iteration_calls(id) ==
    << Call("sleep", <<"time.sleep">>, [seconds |-> PollInterval], NoResp),
       Call("poll", <<"d-id:/talks/", id>>, [id |-> id], NoResp) >>

\* lines 132-144: one iteration of the polling loop: sleep, fetch, decide
Poll ==
    /\ pc = "poll"
    /\ loop_continues(attempt)
    /\ attempt' = attempt + 1
    /\ waited' = waited + PollInterval
    /\ \E resp \in PollResponses :
         LET r == poll_outcome(resp) IN
         /\ calls' = calls \o iteration_calls(talk_id)
         /\ status_response' = resp
         /\ result' = IF Checked(resp, "talks/id") = NoExc THEN resp.body ELSE result
         /\ IF r.exc # NoExc
            THEN Except(r.exc) /\ UNCHANGED video_url
            ELSE IF r.ret = CONTINUE
            THEN Goto("poll") /\ UNCHANGED video_url
            ELSE Goto(next_step("poll")) /\ video_url' = r.ret
    /\ UNCHANGED <<keys, inputs, clicked, audio_bytes, image_url, audio_url,
                   talk_id, video_bytes, shown, mimev>>

\* line 146: the loop ran out of iterations
PollTimeout ==
    /\ pc = "poll"
    /\ ~loop_continues(attempt)
    /\ Except(TimeoutExc)
    /\ UNCHANGED <<keys, inputs, clicked, locals, loopv, calls, shown, mimev>>

\* lines 214-230: mark the status complete, fetch video_url, show the bytes
Download ==
    /\ pc = "download"
    /\ \E resp \in DownloadResponses :
         LET r == download(resp) IN
         /\ calls' = Append(calls, Call("download", <<video_url>>,
                        [url |-> video_url], resp))
         /\ IF r.exc # NoExc
            THEN Except(r.exc) /\ UNCHANGED <<video_bytes, shown>>
            ELSE /\ status_state' = "complete"
                 /\ video_bytes' = r.ret
                 /\ shown' = r.ret
                 /\ pc' = next_step("download")
                 /\ UNCHANGED <<errors, exc>>
    /\ UNCHANGED <<keys, inputs, clicked, audio_bytes, image_url, audio_url,
                   talk_id, video_url, loopv, mimev>>

\* any later interaction runs the script again from the top
Rerun ==
    /\ pc \in {"end", "stopped"}
    /\ pc' = "start"
    /\ HUME_API_KEY' = None /\ DID_API_KEY' = None
    /\ script' = 0 /\ avatar_option' = DEFAULT_OPTION
    /\ session_file' = NoFile /\ uploaded_image' = NoFile
    /\ can_generate' = FALSE /\ clicked' = FALSE
    /\ audio_bytes' = None /\ image_url' = None /\ audio_url' = None
    /\ talk_id' = None /\ video_url' = None /\ video_bytes' = None
    /\ attempt' = 0 /\ status_response' = NoResp
    /\ result' = NoResult /\ waited' = 0
    /\ calls' = <<>>
    /\ status_state' = None /\ errors' = <<>> /\ shown' = None /\ exc' = NoExc
    /\ UNCHANGED mimev

Next ==
    \/ Startup
    \/ Widgets
    \/ ClickGenerate
    \/ NoClick
    \/ GenerateAudio
    \/ UploadAvatar
    \/ UploadAudio
    \/ CreateTalk
    \/ Poll
    \/ PollTimeout
    \/ Download
    \/ Rerun

Spec == Init /\ [][Next]_vars

\* lines 188-234: the handler is straight-line synchronous code: once entered,
\* its next step is taken as soon as the pending network call returns
HandlerStep ==
    \/ GenerateAudio
    \/ UploadAvatar
    \/ UploadAudio
    \/ CreateTalk
    \/ Poll
    \/ PollTimeout
    \/ Download

\* the script run under the assumption that every network call returns
SpecLive == Init /\ [][Next]_vars /\ WF_vars(HandlerStep)

(* ---------------------------------------------------------------------- *)
(* get_mime_type on its own                                                *)
(* ---------------------------------------------------------------------- *)

Tokens ==
    { <<".">>, <<"p","n","g">>, <<"P","N","G">>, <<"j","p","g">>,
      <<"J","p","E","g">>, <<"j","p","e","g">>, <<"m","p","3">>,
      <<"M","P","3">>, <<"w","a","v">>, <<"x","y","z">>,
      <<"a","v","a","t","a","r">>, <<"f","i","l","e">> }

RECURSIVE NamesUpTo(_)
NamesUpTo(n) ==
    IF n = 0 THEN { <<>> }
    ELSE LET prev == NamesUpTo(n - 1)
         IN  prev \cup { p \o t : p \in prev, t \in Tokens }

FileNames == NamesUpTo(MaxParts)

InitMime == Fresh /\ filename \in FileNames /\ mime = None

ApplyMime ==
    /\ mime = None
    /\ mime' = get_mime_type(filename)
    /\ UNCHANGED <<ctl, keys, inputs, clicked, locals, loopv, calls, shown, filename>>

NextMime == ApplyMime

SpecMime == InitMime /\ [][NextMime]_vars

(* ---------------------------------------------------------------------- *)
(* Properties                                                              *)
(* ---------------------------------------------------------------------- *)

IsPoll(c) == c.op = "poll"
\* the number of status fetches issued in this run
Polls == Len(SelectSeq(calls, IsPoll))

\* the run has left the polling loop of create_video in some way
PollingEnded == talk_id # None /\ pc \in {"download", "end"}
\* the last status fetch succeeded and reported a status other than done / error
LastFetchPending ==
    status_response.kind = "ok" /\ result.status \notin {None, "done", "error"}

\* C1: create_video performs at most 60 status fetches; when every fetch
\* succeeds and none reports done or error, exactly 60 fetches are made and
\* the call then fails with the timeout failure, not earlier and not later.
C1_PollBudget ==
    /\ Polls <= MaxPolls
    /\ Polls = attempt
    /\ exc = TimeoutExc => Polls = MaxPolls /\ LastFetchPending
    /\ PollingEnded /\ LastFetchPending => exc = TimeoutExc /\ Polls = MaxPolls
    /\ pc = "poll" /\ attempt > 0 => LastFetchPending /\ exc = NoExc

C1_Witness == exc = TimeoutExc /\ Polls = MaxPolls /\ pc = "end"

\* an avatar source is available to the request
AvatarAvailable ==
    avatar_option = DEFAULT_OPTION
      \/ (avatar_option = UPLOAD_OPTION /\ session_file # NoFile)

\* C2: a script of length 1..1000 (with an avatar source available) is
\* accepted and reaches the synthesizer; a script of length 0 or above 1000
\* is rejected and no network call of any kind is made.
C2_ScriptValidation ==
    pc \notin {"start", "stopped", "widgets"} =>
      /\ script \in 1..ScriptLimit /\ AvatarAvailable => can_generate
      /\ script \in 1..ScriptLimit /\ clicked =>
           \/ pc = "synth" /\ calls = <<>>
           \/ /\ calls # <<>>
              /\ calls[1].op = "tts"
              /\ calls[1].payload.text = script
      /\ script = 0 \/ script > ScriptLimit =>
           /\ calls = <<>>
           /\ pc \in {"button", "end"}
           /\ clicked => errors = <<TOO_LONG_MSG>>

C2_Witness ==
    script = ScriptLimit /\ clicked /\ calls # <<>> /\ calls[1].op = "tts"

IsPrefix(a, b) == Len(a) <= Len(b) /\ \A i \in 1..Len(a) : a[i] = b[i]

\* the order of network calls of a fully successful request with n polls
PipelineOrder(n) ==
    <<"tts", "upload_image", "upload_audio", "create_talk">>
      \o [i \in 1..n |-> "poll"] \o <<"download">>

\* the request ran to its end with no step failing
AllSucceeded ==
    pc = "end" /\ clicked /\ exc = NoExc /\ ~(script > ScriptLimit)

\* C3: on a request in which every step succeeds the network calls are, in
\* this order, synthesize, upload(image), upload(audio), create talk, one or
\* more polls, download; none is skipped, repeated or reordered.
C3_PipelineOrder ==
    /\ IsPrefix(Ops(NetCalls), PipelineOrder(attempt))
    /\ AllSucceeded =>
         /\ attempt >= 1
         /\ Ops(NetCalls) = PipelineOrder(attempt)
         /\ NetCalls[Len(NetCalls)].target = <<video_url>>

C3_Witness == AllSucceeded /\ attempt = 2 /\ shown # None

\* a recorded call other than a status fetch came back as a failure
CallFailed(c) ==
    /\ c.op \in {"tts", "upload_image", "upload_audio", "create_talk"}
    /\ \/ c.res.kind # "ok"
       \/ c.op \in {"upload_image", "upload_audio"} /\ c.res.body.url = None
       \/ c.op = "create_talk" /\ c.res.body.id = None

\* the last status fetch came back as a failure
PollFailed ==
    \/ status_response.kind \in {"conn_error", "http_error"}
    \/ status_response.kind = "ok"
         /\ \/ status_response.body.status \in {None, "error"}
            \/ status_response.body.status = "done"
                 /\ status_response.body.result_url = None

\* C4: when a pipeline step fails (synthesis, avatar read, an upload, job
\* creation, a status poll) no later step runs: the failing call is the last
\* network call of the request and no video is displayed.
C4_ShortCircuit ==
    /\ \A i \in 1..Len(calls) :
         CallFailed(calls[i]) => i = Len(calls) /\ pc = "end" /\ shown = None
    /\ PollFailed =>
         /\ calls[Len(calls)].op = "poll"
         /\ Polls = attempt
         /\ pc = "end" /\ shown = None
    /\ exc.type = "FileNotFoundError" =>
         Ops(calls) = <<"tts">> /\ pc = "end" /\ shown = None
    /\ exc # NoExc => pc = "end" /\ shown = None /\ video_bytes = None

C4_Witness ==
    /\ Len(calls) = 2
    /\ calls[2].op = "upload_image"
    /\ calls[2].res.kind = "http_error"
    /\ pc = "end"

\* C5: when a status poll reports status error, create_video fails at once
\* with a failure carrying the provider's error payload, and no further
\* status fetch is made.
C5_ProviderError ==
    status_response.kind = "ok" /\ status_response.body.status = "error" =>
      /\ pc = "end"
      /\ exc.type = "Exception"
      /\ exc.msg[1] = "D-ID error: "
      /\ status_response.body.error # None =>
           exc.msg = <<"D-ID error: ", status_response.body.error>>
      /\ calls[Len(calls)].op = "poll"
      /\ Polls = attempt
      /\ video_url = None /\ shown = None

C5_Witness ==
    /\ status_response.kind = "ok"
    /\ status_response.body.status = "error"
    /\ status_response.body.error = "err:internal"
    /\ attempt = 1
    /\ exc = DidErrorExc("err:internal")

LastCall == calls[Len(calls)]

\* C6: when a status poll reports done with a result_url, create_video stops
\* polling and returns exactly that URL, and the handler requests exactly
\* that URL before any video bytes are shown.
C6_DoneReturnsUrl ==
    /\ status_response.kind = "ok"
         /\ status_response.body.status = "done"
         /\ status_response.body.result_url # None =>
           /\ video_url = status_response.body.result_url
           /\ Polls = attempt
           /\ pc \in {"download", "end"}
           /\ pc = "download" =>
                LastCall.op = "poll" /\ shown = None /\ video_bytes = None
           /\ pc = "end" =>
                /\ LastCall.op = "download"
                /\ LastCall.target = <<status_response.body.result_url>>
    /\ shown # None =>
         /\ status_response.body.status = "done"
         /\ LastCall.op = "download"
         /\ LastCall.target = <<status_response.body.result_url>>
         /\ shown = LastCall.res.body

C6_Witness ==
    /\ shown # None
    /\ attempt = 3
    /\ video_url = "https://result/2"
    /\ LastCall.target = <<"https://result/2">>

IsImageUpload(c) == c.op = "upload_image"

\* C7: exactly one avatar source is used for the single image upload: with
\* the default source the bundled asset (avatar.png), never the user's file;
\* with the custom source the user's bytes and name, never the bundled asset.
C7_AvatarSource ==
    /\ Len(SelectSeq(calls, IsImageUpload)) <= 1
    /\ clicked => (uploaded_image = NoFile <=> avatar_option = DEFAULT_OPTION)
    /\ \A i \in 1..Len(calls) :
         IsImageUpload(calls[i]) =>
           /\ avatar_option = DEFAULT_OPTION =>
                /\ calls[i].payload.bytes = AVATAR_BYTES
                /\ calls[i].payload.filename = AVATAR_NAME
                /\ \A f \in UserFiles : calls[i].payload.bytes # f.value
           /\ avatar_option = UPLOAD_OPTION =>
                /\ session_file \in UserFiles
                /\ calls[i].payload.bytes = session_file.value
                /\ calls[i].payload.filename = session_file.name
                /\ calls[i].payload.bytes # AVATAR_BYTES

C7_Witness ==
    /\ avatar_option = DEFAULT_OPTION
    /\ session_file \in UserFiles
    /\ Len(calls) >= 2
    /\ IsImageUpload(calls[2])
    /\ calls[2].payload.bytes = AVATAR_BYTES

\* a credential resolved to nothing usable
Absent(v) == v = None \/ v = ""

\* C8: if either credential is absent the application stops with the single
\* static error message before the pipeline can start, and no network call
\* is made in that run.
C8_MissingCredentials ==
    /\ Absent(HUME_API_KEY) \/ Absent(DID_API_KEY) =>
         /\ calls = <<>>
         /\ ~clicked
         /\ pc \in {"start", "stopped"}
    /\ pc = "stopped" =>
         /\ Absent(HUME_API_KEY) \/ Absent(DID_API_KEY)
         /\ errors = <<MISSING_KEYS_MSG>>
    /\ pc \notin {"start", "stopped"} =>
         ~Absent(HUME_API_KEY) /\ ~Absent(DID_API_KEY)

C8_Witness ==
    /\ pc = "stopped"
    /\ HUME_API_KEY = "key"
    /\ DID_API_KEY = ""
    /\ errors = <<MISSING_KEYS_MSG>>

\* some step of the request has raised
SomethingRaised ==
    \/ \E i \in 1..Len(calls) : CallFailed(calls[i])
    \/ PollFailed
    \/ calls # <<>> /\ LastCall.op = "download" /\ LastCall.res.kind = "conn_error"
    \/ attempt = MaxPolls /\ LastFetchPending /\ pc # "poll"
    \/ exc # NoExc

\* C9: every failure raised in the pipeline is caught once by the handler and
\* gives exactly one visible error message, after which the run ends.
C9_SingleErrorMessage ==
    /\ Len(errors) <= 1
    /\ SomethingRaised =>
         /\ exc # NoExc
         /\ errors = << WENT_WRONG \o exc.msg >>
         /\ status_state = "error"
         /\ pc = "end"
         /\ shown = None

C9_Witness ==
    /\ exc = Exc("KeyError", <<"url">>)
    /\ errors = << WENT_WRONG \o <<"url">> >>
    /\ pc = "end"

HasDot(s) == \E i \in 1..Len(s) : s[i] = "."
LastDot(s) == CHOOSE i \in 1..Len(s) : s[i] = "." /\ \A j \in (i + 1)..Len(s) : s[j] # "."

\* the text after the last '.' of a name; a name without '.' has no suffix
SuffixAfterLastDot(s) ==
    IF HasDot(s) THEN SubSeq(s, LastDot(s) + 1, Len(s)) ELSE <<>>

\* the table as the documentation states it, on the lower-cased suffix
MimeOfSuffix(sfx) ==
    LET x == [i \in 1..Len(sfx) |-> LowerChar(sfx[i])] IN
    IF x = <<"p","n","g">> THEN "image/png"
    ELSE IF x \in { <<"j","p","g">>, <<"j","p","e","g">> } THEN "image/jpeg"
    ELSE IF x = <<"m","p","3">> THEN "audio/mpeg"
    ELSE IF x = <<"w","a","v">> THEN "audio/wav"
    ELSE "application/octet-stream"

\* C10: get_mime_type maps every filename by the case-insensitive text after
\* its last '.', and every filename with any other suffix (or none) to
\* application/octet-stream.
C10_MimeBySuffix ==
    mime # None => mime = MimeOfSuffix(SuffixAfterLastDot(filename))

\* the same on the names that contain a '.'
MimeBySuffixOfDottedNames ==
    mime # None /\ HasDot(filename) =>
      mime = MimeOfSuffix(SuffixAfterLastDot(filename))


\* every network call recorded so far came back with a success status
AllResponsesOk ==
    /\ \A i \in 1..Len(calls) :
         calls[i].op \in {"tts", "upload_image", "upload_audio",
                          "create_talk", "download"} => calls[i].res.kind = "ok"
    /\ status_response.kind = "ok"

\* C11: video bytes are shown only when every network call of the request,
\* the final retrieval of the video URL included, succeeded; a non-success
\* response at any of them gives the error message instead of video bytes,
\* so an accepted request ends with exactly one of the two outcomes.
C11_VideoOnlyOnSuccess ==
    /\ shown # None => AllResponsesOk /\ errors = <<>>
    /\ calls # <<>> /\ LastCall.op = "download" /\ LastCall.res.kind # "ok" =>
         shown = None /\ Len(errors) = 1
    /\ pc = "end" /\ calls # <<>> => (shown # None) # (Len(errors) = 1)

\* the first two conjuncts of C11 with the final retrieval left out
VideoOnlyWhenPipelineSucceeded ==
    /\ shown # None =>
         /\ \A i \in 1..Len(calls) :
              calls[i].op \in {"tts", "upload_image", "upload_audio",
                               "create_talk"} => calls[i].res.kind = "ok"
         /\ status_response.kind = "ok"
         /\ errors = <<>>
    /\ pc = "end" /\ calls # <<>> => (shown # None) # (Len(errors) = 1)

\* C12: a status poll answered with a non-success HTTP status aborts
\* create_video at that poll with a provider failure: it is not treated as
\* pending, not retried, and no further status fetch follows.
C12_PollHttpError ==
    status_response.kind = "http_error" =>
      /\ pc = "end"
      /\ exc = Exc("HTTPError", <<"talks/id">>)
      /\ LastCall.op = "poll"
      /\ Polls = attempt
      /\ video_url = None /\ shown = None

C12_Witness ==
    /\ status_response.kind = "http_error"
    /\ attempt = 2
    /\ result.status = "pending"
    /\ exc.type = "HTTPError"


\* the loop is at the top of an iteration with budget left
BudgetRemains == pc = "poll" /\ attempt < MaxPolls

\* after a successful non-terminal status the call has neither returned nor
\* failed, unless the budget is used up and the timeout was raised
NonTerminalKeepsPolling ==
    LastFetchPending =>
      \/ pc = "poll" /\ exc = NoExc /\ video_url = None /\ shown = None
      \/ pc = "end" /\ attempt = MaxPolls /\ exc = TimeoutExc

\* with budget left the next step of the run is the next status fetch
NextPollFollows ==
    BudgetRemains => attempt' = attempt + 1 /\ Len(calls') = Len(calls) + 2

\* C13: every successful status response whose status is neither done nor
\* error (created, pending, any unrecognised value) leaves the job
\* non-terminal: create_video neither returns nor fails on it and goes on to
\* the next poll while the attempt budget remains.
C13_NonTerminalContinues == []NonTerminalKeepsPolling /\ [][NextPollFollows]_vars

C13_Witness ==
    /\ status_response.kind = "ok"
    /\ result.status = "started"
    /\ pc = "poll"
    /\ attempt = 5
    /\ exc = NoExc

CountOp(op) == Cardinality({ i \in 1..Len(calls) : calls[i].op = op })

\* C14: within one request no provider call is retried or resubmitted: at
\* most one synthesis call, one image upload, one audio upload, one
\* job-creation call and one download, whatever the outcomes.
C14_NoRetry ==
    \A op \in {"tts", "upload_image", "upload_audio", "create_talk", "download"} :
      CountOp(op) <= 1

C14_Witness ==
    /\ pc = "end"
    /\ calls # <<>>
    /\ LastCall.op = "download"
    /\ LastCall.res.kind = "conn_error"
    /\ \A op \in {"tts", "upload_image", "upload_audio", "create_talk", "download"} :
         CountOp(op) = 1


\* C15: values flow unchanged between steps: the audio uploaded is the body
\* returned by synthesis, the job is created with source_url = the URL
\* returned by the image upload and audio_url = the URL returned by the audio
\* upload (never swapped), and every poll addresses the id returned by job
\* creation.
C15_ValuesFlow ==
    \A i \in 1..Len(calls) :
      /\ calls[i].op = "upload_audio" =>
           /\ calls[1].op = "tts"
           /\ calls[i].payload.bytes = calls[1].res.body
      /\ calls[i].op = "create_talk" =>
           \E j \in 1..(i - 1), k \in 1..(i - 1) :
             /\ calls[j].op = "upload_image"
             /\ calls[k].op = "upload_audio"
             /\ calls[i].payload.source_url = calls[j].res.body.url
             /\ calls[i].payload.audio_url = calls[k].res.body.url
      /\ calls[i].op = "poll" =>
           \E j \in 1..(i - 1) :
             /\ calls[j].op = "create_talk"
             /\ calls[i].payload.id = calls[j].res.body.id
             /\ calls[i].target = <<"d-id:/talks/", calls[j].res.body.id>>

C15_Witness ==
    /\ Len(calls) >= 6
    /\ calls[1].res.body = "mp3:B"
    /\ calls[3].payload.bytes = "mp3:B"
    /\ calls[4].payload = [source_url |-> "s3://bucket/1", audio_url |-> "s3://bucket/2"]
    /\ calls[4].res.body.id = "tlk_2"
    /\ calls[6].op = "poll"
    /\ calls[6].payload.id = "tlk_2"

IsSleep(c) == c.op = "sleep"

\* C16: in create_video every status fetch is immediately preceded by one
\* wait of 3 time units: no fetch directly follows job creation, the number
\* of waits equals the number of fetches, and the total waiting time of one
\* call never exceeds 180 time units.
C16_WaitBeforeFetch ==
    /\ \A i \in 1..Len(calls) :
         /\ IsPoll(calls[i]) =>
              /\ i > 1
              /\ IsSleep(calls[i - 1])
              /\ calls[i - 1].payload.seconds = 3
         /\ IsSleep(calls[i]) => i < Len(calls) /\ IsPoll(calls[i + 1])
    /\ Len(SelectSeq(calls, IsSleep)) = Polls
    /\ waited = 3 * Polls
    /\ waited <= 180

C16_Witness ==
    /\ waited = 180
    /\ Polls = MaxPolls
    /\ Len(SelectSeq(calls, IsSleep)) = MaxPolls
    /\ result.status = "done"


\* the request passed validation and entered the try block
Accepted == clicked /\ pc \in {"synth", "image", "audio", "talk", "poll", "download"}
VideoDelivered == pc = "end" /\ shown # None /\ errors = <<>>
ErrorReported  == pc = "end" /\ shown = None /\ Len(errors) = 1

\* C17: provided every network call returns, every accepted request
\* eventually terminates, with the video delivered or the error reported;
\* the polling phase ends after at most 60 polls even when no terminal
\* status is ever reported.
C17_Terminates ==
    /\ Accepted ~> (VideoDelivered \/ ErrorReported)
    /\ [](Polls <= MaxPolls)

C17_Witness ==
    /\ ErrorReported
    /\ exc = TimeoutExc
    /\ attempt = MaxPolls
    /\ result.status = "created"

====
